---- MODULE Spec2Model ----
(***************************************************************************)
(* Client-side chunked encryption of the file-transfer frontend:           *)
(* utils/crypto (generateFileKey, deriveChunkKey, encryptChunk,            *)
(* decryptChunk, processFileForUpload, reconstructFile), the upload page's *)
(* handleUpload and the files page's handleDownload.                       *)
(*                                                                         *)
(* Octets are integers 0..255.  An octet of AES-GCM output is a tuple:     *)
(* a body octet <<b>> carries its value b (plaintext plus keystream, mod   *)
(* 256), a tag octet <<p, key, iv, body>> is the p-th octet of the ideal   *)
(* (collision-free) authentication tag of (key, iv, body).  HKDF output is *)
(* the symbolic term of its inputs.  The state machine runs with the       *)
(* scaled chunk size ChunkSize; the arithmetic operators take the chunk    *)
(* size as a parameter and are also evaluated at the real CHUNK_SIZE.      *)
(***************************************************************************)
EXTENDS Integers, Sequences, FiniteSets, TLC

\* ---------------------------------------------------------------- bounds
\* chunk size the state machine runs with (stands for CHUNK_SIZE)
ChunkSize == 2
\* longest file selected on the upload page
MaxFileLen == 5
\* number of distinct master keys generateFileKey may return
NumKeys == 2
\* number of distinct IVs getRandomValues may return
NumIVs == 2

\* ------------------------------------------------------ program constants
CHUNK_SIZE == 1024 * 1024
TAG_LEN == 16
IV_LEN == 12
KEY_LEN == 32
SALT_LEN == 16

\* ------------------------------------------------------------- sequences
Last(s) == s[Len(s)]

\* Blob.slice(start, end): both ends clamped to the blob
Slice(s, start, end) ==
    LET a == IF start > Len(s) THEN Len(s) ELSE start
        b == IF end > Len(s) THEN Len(s) ELSE end
    IN  IF b <= a THEN <<>> ELSE [j \in 1..(b - a) |-> s[a + j]]

RECURSIVE Flatten(_)
\* new Blob([part, part, ...]): the parts in order
Flatten(parts) ==
    IF parts = <<>> THEN <<>> ELSE Head(parts) \o Flatten(Tail(parts))

RECURSIVE SumSeq(_)
SumSeq(s) == IF s = <<>> THEN 0 ELSE Head(s) + SumSeq(Tail(s))

\* ---------------------------------------------------------------- base64
\* A base64 character is its index 0..63 in the alphabet; Pad is '='.
Pad == 64

\* btoa(String.fromCharCode(...bytes))
Btoa(bytes) ==
    LET n == Len(bytes)
        B(j) == IF j <= n THEN bytes[j] ELSE 0
        Char(k) ==
            LET g == (k - 1) \div 4
                r == (k - 1) % 4
                b1 == B(3 * g + 1)
                b2 == B(3 * g + 2)
                b3 == B(3 * g + 3)
            IN  CASE r = 0 -> b1 \div 4
                  [] r = 1 -> (b1 % 4) * 16 + (b2 \div 16)
                  [] r = 2 -> IF 3 * g + 2 > n THEN Pad
                              ELSE (b2 % 16) * 4 + (b3 \div 64)
                  [] r = 3 -> IF 3 * g + 3 > n THEN Pad ELSE b3 % 64
    IN  [k \in 1..(4 * ((n + 2) \div 3)) |-> Char(k)]

\* atob(text), then charCodeAt of every character
Atob(chars) ==
    LET m == Len(chars)
        pads == IF m = 0 THEN 0
                ELSE IF chars[m] # Pad THEN 0
                ELSE IF chars[m - 1] # Pad THEN 1 ELSE 2
        S(x) == IF chars[x] = Pad THEN 0 ELSE chars[x]
        Byte(j) ==
            LET g == (j - 1) \div 3
                r == (j - 1) % 3
                s1 == S(4 * g + 1)
                s2 == S(4 * g + 2)
                s3 == S(4 * g + 3)
                s4 == S(4 * g + 4)
            IN  CASE r = 0 -> s1 * 4 + (s2 \div 16)
                  [] r = 1 -> (s2 % 16) * 16 + (s3 \div 4)
                  [] r = 2 -> (s3 % 4) * 64 + s4
    IN  [j \in 1..((m \div 4) * 3 - pads) |-> Byte(j)]

\* ------------------------------------------------------------------ keys
\* raw bytes of the k-th key the random source can produce
KeyBytes(k) == [j \in 1..KEY_LEN |-> (k * 53 + j * 7) % 256]
\* the n-th IV the random source can produce
IvBytes(n) == [j \in 1..IV_LEN |-> (n * 29 + j * 5) % 256]

\* a CryptoKey: algorithm, key material, extractable flag
CryptoKey(alg, raw, extractable) ==
    [alg |-> alg, raw |-> raw, extractable |-> extractable]

\* generateFileKey(): AES-GCM, 256 bits, extractable
generateFileKey(k) == CryptoKey("AES-GCM", KeyBytes(k), TRUE)

\* crypto.subtle.importKey('raw', rawKey, AES-GCM 256, true, ...)
ImportMasterKey(raw) ==
    IF Len(raw) = KEY_LEN
    THEN [ok |-> TRUE, key |-> CryptoKey("AES-GCM", raw, TRUE)]
    ELSE [ok |-> FALSE, key |-> CryptoKey("none", <<>>, FALSE)]

RECURSIVE DecimalBytes(_)
\* the characters of `${n}` for an integer n, as UTF-8 octets
DecimalBytes(n) ==
    IF n < 0 THEN <<45>> \o DecimalBytes(-n)
    ELSE IF n < 10 THEN <<48 + n>>
    ELSE DecimalBytes(n \div 10) \o <<48 + (n % 10)>>

\* faulty variant of ChunkInfo: the index is left out of the info
ChunkInfoNoIndex(chunkIndex) == <<99, 104, 117, 110, 107, 45>>
\* encoder.encode(`chunk-${chunkIndex}`): "chunk-" and the decimal index
ChunkInfo(chunkIndex) ==
    <<99, 104, 117, 110, 107, 45>> \o DecimalBytes(chunkIndex)

\* faulty variant of Hkdf: the info does not enter the output
HkdfNoInfo(ikm, salt, info) == [ikm |-> ikm, salt |-> salt, info |-> <<>>]
\* HKDF-SHA-256 output as the term of its inputs
Hkdf(ikm, salt, info) == [ikm |-> ikm, salt |-> salt, info |-> info]

\* faulty variant of deriveChunkKey: rejects a negative index
deriveChunkKeyChecked(masterKey, chunkIndex) ==
    IF ~masterKey.extractable \/ chunkIndex < 0
    THEN [ok |-> FALSE, key |-> CryptoKey("none", <<>>, FALSE)]
    ELSE [ok |-> TRUE,
          key |-> CryptoKey("AES-GCM",
                            Hkdf(masterKey.raw, [j \in 1..SALT_LEN |-> 0],
                                 ChunkInfo(chunkIndex)),
                            FALSE)]
\* deriveChunkKey(masterKey, chunkIndex): exportKey fails on a key that is
\* not extractable; the index is not examined
deriveChunkKey(masterKey, chunkIndex) ==
    IF ~masterKey.extractable
    THEN [ok |-> FALSE, key |-> CryptoKey("none", <<>>, FALSE)]
    ELSE [ok |-> TRUE,
          key |-> CryptoKey("AES-GCM",
                            Hkdf(masterKey.raw, [j \in 1..SALT_LEN |-> 0],
                                 ChunkInfo(chunkIndex)),
                            FALSE)]

\* --------------------------------------------------------------- AES-GCM
\* keystream octet j under (key, iv)
KeyStream(key, iv, j) ==
    (SumSeq(key.raw.ikm) + 31 * SumSeq(key.raw.info) + SumSeq(iv) + 7 * j) % 256

BodyOctet(b) == <<b>>
TagOctet(p, key, iv, body) == <<p, key.raw, iv, body>>
GcmTag(key, iv, body) == [p \in 1..TAG_LEN |-> TagOctet(p, key, iv, body)]

\* faulty variant of encryptChunk: the tag is not appended
encryptChunkNoTag(chunk, key, iv) ==
    [encryptedData |-> [j \in 1..Len(chunk) |->
                           BodyOctet((chunk[j] + KeyStream(key, iv, j)) % 256)],
     iv |-> iv]
\* encryptChunk(chunk, key) with the IV the random source returned
encryptChunk(chunk, key, iv) ==
    LET body == [j \in 1..Len(chunk) |->
                    BodyOctet((chunk[j] + KeyStream(key, iv, j)) % 256)]
    IN  [encryptedData |-> body \o GcmTag(key, iv, body), iv |-> iv]

\* the plaintext of a body whose tag has been verified
GcmPlain(body, key, iv) ==
    [j \in 1..Len(body) |->
        (body[j][1] + 256 - KeyStream(key, iv, j)) % 256]

\* faulty variant of decryptChunk: the tag is not verified
decryptChunkUnchecked(encryptedData, key, iv) ==
    LET n == Len(encryptedData)
        body == Slice(encryptedData, 0, n - TAG_LEN)
    IN  IF n < TAG_LEN \/ \E j \in 1..Len(body) : Len(body[j]) # 1
        THEN [ok |-> FALSE, err |-> "OperationError", data |-> <<>>]
        ELSE [ok |-> TRUE, err |-> "", data |-> GcmPlain(body, key, iv)]
\* decryptChunk(encryptedData, key, iv): crypto.subtle.decrypt rejects with
\* an OperationError both when the data is shorter than the tag and when
\* the tag does not verify
decryptChunk(encryptedData, key, iv) ==
    LET n == Len(encryptedData)
        body == Slice(encryptedData, 0, n - TAG_LEN)
        tag == Slice(encryptedData, n - TAG_LEN, n)
    IN  IF n < TAG_LEN
        THEN [ok |-> FALSE, err |-> "OperationError", data |-> <<>>]
        ELSE IF tag # GcmTag(key, iv, body)
        THEN [ok |-> FALSE, err |-> "OperationError", data |-> <<>>]
        ELSE [ok |-> TRUE, err |-> "", data |-> GcmPlain(body, key, iv)]

\* ------------------------------------------------------------ arithmetic
\* faulty variant of TotalChunks: never less than one chunk
TotalChunksAtLeastOne(size, c) ==
    IF size = 0 THEN 1 ELSE (size + c - 1) \div c
\* faulty variant of TotalChunks: Math.floor
TotalChunksFloor(size, c) == size \div c
\* Math.ceil(size / c)
TotalChunks(size, c) == (size + c - 1) \div c

Min(a, b) == IF a < b THEN a ELSE b

\* start and end of the plaintext range of chunk i of a file of `size` bytes
ChunkStart(i, c) == i * c
\* faulty variant of ChunkEnd: the range is one byte short
ChunkEndShort(i, size, c) == Min(ChunkStart(i, c) + c - 1, size)
ChunkEnd(i, size, c) == Min(ChunkStart(i, c) + c, size)

\* faulty variant of EncryptedChunkSize: every size is limited to the bytes
\* that remain
EncryptedChunkSizeClamped(i, totalChunks, blobSize, offset, c) ==
    Min(c + TAG_LEN, blobSize - offset)
\* faulty variant of EncryptedChunkSize: the tag overhead is forgotten
EncryptedChunkSizeNoTag(i, totalChunks, blobSize, offset, c) ==
    IF i < totalChunks - 1 THEN c ELSE blobSize - offset
\* faulty variant of EncryptedChunkSize: the last chunk is sized like the others
EncryptedChunkSizeUniform(i, totalChunks, blobSize, offset, c) == c + TAG_LEN
\* currentEncryptedChunkSize of reconstructFile at index i
EncryptedChunkSize(i, totalChunks, blobSize, offset, c) ==
    IF i < totalChunks - 1 THEN c + TAG_LEN ELSE blobSize - offset

\* faulty variant of ProgressValue: (i / totalChunks) * 100
ProgressValueOffByOne(i, totalChunks) == <<i * 100, totalChunks>>
\* ((i + 1) / totalChunks) * 100 as the fraction <<numerator, denominator>>
ProgressValue(i, totalChunks) == <<(i + 1) * 100, totalChunks>>
\* p * 0.4
Scale04(p) == <<p[1] * 4, p[2] * 10>>
Whole(n) == <<n, 1>>
LeqQ(a, b) == a[1] * b[2] <= b[1] * a[2]
EqQ(a, b) == a[1] * b[2] = b[1] * a[2]

\* ----------------------------------------------------------------- state
VARIABLES
    page,         \* the mounted page: "upload" (UploadPage) or "files" (FilesPage)
    token,        \* useAuth().token
    file,         \* UploadPage: the selected file
    isUploading,  \* UploadPage
    progress,     \* UploadPage: progress shown, a fraction
    step,         \* UploadPage: wizard step 1..3
    uploadAlert,  \* UploadPage: the message of alert(), "" when none was shown
    request,      \* the form posted to /api/files/register
    up,           \* the running handleUpload / processFileForUpload call
    upProgress,   \* values processFileForUpload passed to onProgress
    stored,       \* the registration of the latest upload, as the backend holds it
    isLoading,    \* FilesPage
    dl,           \* the running handleDownload / reconstructFile call
    dlProgress,   \* values reconstructFile passed to onProgress
    saved,        \* the blob handleDownload handed to the browser
    dlAlert,      \* FilesPage: the message of alert(), "" when none was shown
    kdf,          \* direct calls of deriveChunkKey
    auth,         \* AuthProvider (user, localStorage) and the router's location
    admin         \* AdminUsers: the user list, the requests in flight

vars == <<page, token, file, isUploading, progress, step, uploadAlert, request,
          up, upProgress, stored, isLoading, dl, dlProgress, saved, dlAlert, kdf,
          auth, admin>>
uploadPageVars == <<file, isUploading, progress, step, uploadAlert>>
uploadVars == <<file, isUploading, progress, step, uploadAlert, request, up,
                upProgress>>
downloadVars == <<isLoading, dl, dlProgress, saved, dlAlert>>

NoToken == ""
\* /upload and /files are rendered inside ProtectedRoute, that is, with a token
Tokens == {"jwt"}
NoKey == CryptoKey("none", <<>>, FALSE)
NoFile == [set |-> FALSE, bytes |-> <<>>]
NoRequest == [sent |-> FALSE, file |-> <<>>, size |-> 0, wrappedKey |-> <<>>,
              ivs |-> <<>>]
NoStored == [has |-> FALSE, blob |-> <<>>, wrappedKey |-> <<>>, ivs |-> <<>>,
             plain |-> <<>>]
NoResult == [returned |-> FALSE, chunks |-> <<>>, wrappedKey |-> <<>>]

\* the files a user can select: every length up to MaxFileLen
FileOfLen(n) == [set |-> TRUE, bytes |-> [j \in 1..n |-> (j * 41 + 3) % 256]]
Files == {FileOfLen(n) : n \in 0..MaxFileLen}

UpIdle == [pc |-> "idle", file |-> <<>>, masterKey |-> NoKey, chunks |-> <<>>,
           totalChunks |-> 0, i |-> 0, chunk |-> <<>>, chunkKey |-> NoKey,
           reads |-> <<>>, keyed |-> <<>>, threw |-> FALSE,
           result |-> NoResult]
UpRunning == {"generate", "read", "derive", "encrypt", "export", "returned",
              "register"}

InitUploadPage ==
    /\ file = NoFile
    /\ isUploading = FALSE
    /\ progress = Whole(0)
    /\ step = 1
    /\ uploadAlert = ""
ResetUploadPage ==
    /\ file' = NoFile
    /\ isUploading' = FALSE
    /\ progress' = Whole(0)
    /\ step' = 1
    /\ uploadAlert' = ""

\* ------------------------------------------------------------ UploadPage
\* onDrop: the dropzone is rendered at step 1
onDrop(f) ==
    /\ page = "upload"
    /\ step = 1
    /\ file' = f
    /\ step' = 2
    /\ UNCHANGED <<page, token, isUploading, progress, uploadAlert, request,
                   up, upProgress, stored, downloadVars, kdf, auth,
                   admin>>

\* the buttons that call setStep(1): the X of step 2, Upload Another of step 3
ClickSetStep1 ==
    /\ page = "upload"
    /\ step \in {2, 3}
    /\ step = 2 => file.set
    /\ step' = 1
    /\ UNCHANGED <<page, token, file, isUploading, progress, uploadAlert,
                   request, up, upProgress, stored, downloadVars, kdf, auth,
                   admin>>

\* handleUpload up to its first await; the button is rendered at step 2 while
\* isUploading is false. The model follows the latest upload only: the
\* registration of an earlier one is forgotten here.
handleUpload ==
    /\ page = "upload"
    /\ step = 2 /\ file.set /\ ~isUploading
    /\ IF ~file.set \/ token = NoToken
       THEN UNCHANGED vars
       ELSE /\ isUploading' = TRUE
            /\ up' = [UpIdle EXCEPT !.pc = "generate", !.file = file.bytes]
            /\ upProgress' = <<>>
            /\ uploadAlert' = ""
            /\ request' = NoRequest
            /\ stored' = NoStored
            /\ UNCHANGED <<page, token, file, progress, step, downloadVars, kdf, auth,
                   admin>>

\* where the loop of processFileForUpload goes with index i
UpLoopPc(i, totalChunks) == IF i < totalChunks THEN "read" ELSE "export"

\* processFileForUpload: generateFileKey, totalChunks
processGenerateKey(k) ==
    /\ up.pc = "generate"
    /\ LET total == TotalChunks(Len(up.file), ChunkSize)
       IN  up' = [up EXCEPT !.masterKey = generateFileKey(k),
                            !.totalChunks = total,
                            !.i = 0,
                            !.pc = UpLoopPc(0, total)]
    /\ UNCHANGED <<page, token, uploadPageVars, request, upProgress, stored,
                   downloadVars, kdf, auth,
                   admin>>

\* faulty variant of processReadChunk: the loop goes on to the next index
\* without awaiting the derivation and the encryption of the chunk it read
processReadChunkAhead ==
    /\ up.pc = "read"
    /\ LET start == ChunkStart(up.i, ChunkSize)
           end == ChunkEnd(up.i, Len(up.file), ChunkSize)
       IN  up' = [up EXCEPT !.chunk = Slice(up.file, start, end),
                            !.reads = Append(@, <<start, end>>),
                            !.i = @ + 1,
                            !.pc = UpLoopPc(up.i + 1, up.totalChunks)]
    /\ UNCHANGED <<page, token, uploadPageVars, request, upProgress, stored,
                   downloadVars, kdf, auth,
                   admin>>
\* processFileForUpload: file.slice(start, end).arrayBuffer()
processReadChunk ==
    /\ up.pc = "read"
    /\ LET start == ChunkStart(up.i, ChunkSize)
           end == ChunkEnd(up.i, Len(up.file), ChunkSize)
       IN  up' = [up EXCEPT !.chunk = Slice(up.file, start, end),
                            !.reads = Append(@, <<start, end>>),
                            !.pc = "derive"]
    /\ UNCHANGED <<page, token, uploadPageVars, request, upProgress, stored,
                   downloadVars, kdf, auth,
                   admin>>

\* faulty variant of UploadCatch: the failing chunk is dropped and the loop
\* goes on
UploadCatchContinue(u) ==
    /\ up' = [u EXCEPT !.i = @ + 1, !.pc = UpLoopPc(u.i + 1, u.totalChunks)]
    /\ UNCHANGED <<uploadAlert, isUploading>>
\* a rejected await of processFileForUpload reaches handleUpload's catch and
\* finally (u is the call's state with the rejection noted)
UploadCatch(u) ==
    /\ up' = [u EXCEPT !.pc = "failed"]
    /\ uploadAlert' = "Upload failed"
    /\ isUploading' = FALSE

\* processFileForUpload: deriveChunkKey(masterKey, i)
processDeriveKey ==
    /\ up.pc = "derive"
    /\ LET r == deriveChunkKey(up.masterKey, up.i)
       IN  IF r.ok
           THEN /\ up' = [up EXCEPT !.chunkKey = r.key,
                                    !.keyed = Append(@, up.i),
                                    !.pc = "encrypt"]
                /\ UNCHANGED <<uploadAlert, isUploading>>
           ELSE UploadCatch([up EXCEPT !.threw = TRUE])
    /\ UNCHANGED <<page, token, file, progress, step, request, upProgress,
                   stored, downloadVars, kdf, auth,
                   admin>>

\* faulty variant of processEncryptChunk: the entry is put in front of the
\* earlier ones
processEncryptChunkUnshift(n) ==
    /\ up.pc = "encrypt"
    /\ LET r == encryptChunk(up.chunk, up.chunkKey, IvBytes(n))
           p == ProgressValue(up.i, up.totalChunks)
       IN  /\ up' = [up EXCEPT !.chunks = <<[data |-> r.encryptedData,
                                              iv |-> Btoa(r.iv)]>> \o @,
                               !.i = @ + 1,
                               !.pc = UpLoopPc(up.i + 1, up.totalChunks)]
           /\ upProgress' = Append(upProgress, p)
           /\ progress' = Scale04(p)
    /\ UNCHANGED <<page, token, file, isUploading, step, uploadAlert, request,
                   stored, downloadVars, kdf, auth,
                   admin>>
\* processFileForUpload: encryptChunk, chunks.push, onProgress (handleUpload's
\* callback sets progress to p * 0.4)
processEncryptChunk(n) ==
    /\ up.pc = "encrypt"
    /\ LET r == encryptChunk(up.chunk, up.chunkKey, IvBytes(n))
           p == ProgressValue(up.i, up.totalChunks)
       IN  /\ up' = [up EXCEPT !.chunks = Append(@, [data |-> r.encryptedData,
                                                     iv |-> Btoa(r.iv)]),
                               !.i = @ + 1,
                               !.pc = UpLoopPc(up.i + 1, up.totalChunks)]
           /\ upProgress' = Append(upProgress, p)
           /\ progress' = Scale04(p)
    /\ UNCHANGED <<page, token, file, isUploading, step, uploadAlert, request,
                   stored, downloadVars, kdf, auth,
                   admin>>

\* the wrappedKey processFileForUpload returns
ExportWrappedKey(masterKey) == Btoa(masterKey.raw)

\* processFileForUpload: exportKey('raw', masterKey), btoa, return
processExportKey ==
    /\ up.pc = "export"
    /\ up' = [up EXCEPT !.result = [returned |-> TRUE,
                                    chunks |-> up.chunks,
                                    wrappedKey |-> ExportWrappedKey(up.masterKey)],
                        !.pc = "returned"]
    /\ UNCHANGED <<page, token, uploadPageVars, request, upProgress, stored,
                   downloadVars, kdf, auth,
                   admin>>

\* a read, a key operation or an encryption of processFileForUpload rejects
processFails ==
    /\ up.pc \in {"generate", "read", "derive", "encrypt", "export"}
    /\ UploadCatch([up EXCEPT !.threw = TRUE])
    /\ UNCHANGED <<page, token, file, progress, step, request, upProgress,
                   stored, downloadVars, kdf, auth,
                   admin>>

\* handleUpload after processFileForUpload returned: the blob, the IV list,
\* setProgress(60), the form, fetch
handleUploadRegister ==
    /\ up.pc = "returned"
    /\ LET chunks == up.result.chunks
           encryptedBlob == Flatten([k \in 1..Len(chunks) |-> chunks[k].data])
           ivs == [k \in 1..Len(chunks) |-> chunks[k].iv]
       IN  request' = [sent |-> TRUE, file |-> encryptedBlob,
                       size |-> Len(up.file),
                       wrappedKey |-> up.result.wrappedKey, ivs |-> ivs]
    /\ progress' = Whole(60)
    /\ up' = [up EXCEPT !.pc = "register"]
    /\ UNCHANGED <<page, token, file, isUploading, step, uploadAlert,
                   upProgress, stored, downloadVars, kdf, auth,
                   admin>>

\* handleUpload: the response of /api/files/register
handleUploadResponse(ok) ==
    /\ up.pc = "register"
    /\ IF ok
       THEN /\ progress' = Whole(100)
            /\ step' = 3
            /\ up' = [up EXCEPT !.pc = "done"]
            /\ stored' = [has |-> TRUE, blob |-> request.file,
                          wrappedKey |-> request.wrappedKey,
                          ivs |-> request.ivs, plain |-> up.file]
            /\ UNCHANGED uploadAlert
       ELSE /\ uploadAlert' = "Upload failed"
            /\ up' = [up EXCEPT !.pc = "rejected"]
            /\ UNCHANGED <<progress, step, stored>>
    /\ isUploading' = FALSE
    /\ UNCHANGED <<page, token, file, request, upProgress, downloadVars, kdf, auth,
                   admin>>

\* ------------------------------------------------------------- FilesPage
\* at most this many IVs are added to a manifest the backend returns
MaxExtraIvs == 2

DlIdle == [pc |-> "idle", fault |-> [kind |-> "none", arg |-> 0],
           encryptedBlob |-> <<>>, wrappedKey |-> <<>>, ivs |-> <<>>,
           masterKey |-> NoKey, decryptedChunks |-> <<>>, totalChunks |-> 0,
           offset |-> 0, i |-> 0, iv |-> <<>>, size |-> 0,
           chunkBuffer |-> <<>>, chunkKey |-> NoKey, log |-> <<>>,
           decrypts |-> <<>>, error |-> [message |-> "", chunk |-> -1],
           returned |-> FALSE, result |-> <<>>]

\* what the backend and the store may hand back for a registered file: the
\* registered data, or that data with one fault
Faults(s) ==
    {[kind |-> "none", arg |-> 0], [kind |-> "wrongKey", arg |-> 0],
     [kind |-> "noKey", arg |-> 0]}
    \cup {[kind |-> "flip", arg |-> p] : p \in 1..Len(s.blob)}
    \cup {[kind |-> "truncate", arg |-> n] : n \in 0..(Len(s.blob) - 1)}
    \cup {[kind |-> "dropIv", arg |-> n] : n \in 1..Len(s.ivs)}
    \cup {[kind |-> "extraIv", arg |-> n] : n \in 1..MaxExtraIvs}
    \cup {[kind |-> "wrongIv", arg |-> j] : j \in 1..Len(s.ivs)}

\* an octet that differs from octet e
FlipOctet(e) == IF Len(e) = 1 THEN <<(e[1] + 1) % 256>> ELSE <<e[1]>>

FaultyBlob(s, f) ==
    CASE f.kind = "flip" -> [s.blob EXCEPT ![f.arg] = FlipOctet(@)]
      [] f.kind = "truncate" -> Slice(s.blob, 0, f.arg)
      [] OTHER -> s.blob
FaultyIvs(s, f) ==
    CASE f.kind = "dropIv" -> Slice(s.ivs, 0, Len(s.ivs) - f.arg)
      [] f.kind = "extraIv" -> s.ivs \o [k \in 1..f.arg |-> Btoa(IvBytes(1))]
      [] f.kind = "wrongIv" ->
            [s.ivs EXCEPT ![f.arg] = Btoa(IvBytes(NumIVs + 1))]
      [] OTHER -> s.ivs
FaultyKey(s, f) ==
    CASE f.kind = "wrongKey" -> Btoa(KeyBytes(NumKeys + 1))
      [] f.kind = "noKey" -> <<>>
      [] OTHER -> s.wrappedKey

\* handleDownload up to its first await
handleDownload ==
    /\ page = "files"
    /\ stored.has
    /\ dl.pc \in {"idle", "done", "denied", "failed"}
    /\ isLoading' = TRUE
    /\ dl' = [DlIdle EXCEPT !.pc = "fetch"]
    /\ dlProgress' = <<>>
    /\ saved' = [done |-> FALSE, bytes |-> <<>>]
    /\ dlAlert' = ""
    /\ UNCHANGED <<page, token, uploadVars, stored, kdf, auth,
                   admin>>

\* handleDownload's catch and finally
DownloadCatch(pc) ==
    /\ dl' = [dl EXCEPT !.pc = pc]
    /\ dlAlert' = "Download/Decryption failed"
    /\ isLoading' = FALSE

\* handleDownload: the access request or the blob request is refused
handleDownloadRefused ==
    /\ dl.pc = "fetch"
    /\ DownloadCatch("denied")
    /\ UNCHANGED <<page, token, uploadVars, stored, dlProgress, saved, kdf, auth,
                   admin>>

\* handleDownload: accessData and the encrypted blob arrive; reconstructFile
\* is called unless wrappedKey is missing
handleDownloadFetched(f) ==
    /\ dl.pc = "fetch"
    /\ f \in Faults(stored)
    /\ IF FaultyKey(stored, f) = <<>>
       THEN DownloadCatch("denied")
       ELSE /\ dl' = [dl EXCEPT !.pc = "import",
                                !.fault = f,
                                !.encryptedBlob = FaultyBlob(stored, f),
                                !.wrappedKey = FaultyKey(stored, f),
                                !.ivs = FaultyIvs(stored, f)]
            /\ UNCHANGED <<dlAlert, isLoading>>
    /\ UNCHANGED <<page, token, uploadVars, stored, dlProgress, saved, kdf, auth,
                   admin>>

\* faulty variant of DlLoopPc: the loop stops one index early
DlLoopPcStopEarly(i, totalChunks) ==
    IF i < totalChunks - 1 THEN "slice" ELSE "return"
\* where the loop of reconstructFile goes with index i
DlLoopPc(i, totalChunks) == IF i < totalChunks THEN "slice" ELSE "return"

\* reconstructFile: atob(wrappedKey), importKey, totalChunks, offset
reconstructImportKey ==
    /\ dl.pc = "import"
    /\ LET r == ImportMasterKey(Atob(dl.wrappedKey))
       IN  IF r.ok
           THEN /\ dl' = [dl EXCEPT !.masterKey = r.key,
                                    !.totalChunks = Len(dl.ivs),
                                    !.offset = 0,
                                    !.i = 0,
                                    !.pc = DlLoopPc(0, Len(dl.ivs))]
                /\ UNCHANGED <<dlAlert, isLoading>>
           ELSE DownloadCatch("failed")
    /\ UNCHANGED <<page, token, uploadVars, stored, dlProgress, saved, kdf, auth,
                   admin>>

\* faulty variant of reconstructSlice: an index whose slice would reach past
\* the end of the blob is skipped too
reconstructSliceSkipShort ==
    /\ dl.pc = "slice"
    /\ LET size == EncryptedChunkSize(dl.i, dl.totalChunks,
                                      Len(dl.encryptedBlob), dl.offset,
                                      ChunkSize)
           line == [i |-> dl.i, offset |-> dl.offset, size |-> size]
       IN  IF size <= 0 \/ dl.offset + size > Len(dl.encryptedBlob)
           THEN dl' = [dl EXCEPT !.iv = Atob(dl.ivs[dl.i + 1]),
                                 !.size = size,
                                 !.log = Append(@, line),
                                 !.i = @ + 1,
                                 !.pc = DlLoopPc(dl.i + 1, dl.totalChunks)]
           ELSE dl' = [dl EXCEPT !.iv = Atob(dl.ivs[dl.i + 1]),
                                 !.size = size,
                                 !.log = Append(@, line),
                                 !.chunkBuffer =
                                     Slice(dl.encryptedBlob, dl.offset,
                                           dl.offset + size),
                                 !.pc = "derive"]
    /\ UNCHANGED <<page, token, uploadVars, stored, isLoading, dlProgress,
                   saved, dlAlert, kdf, auth,
                   admin>>
\* faulty variant of reconstructSlice: a size of zero or less is sliced like
\* any other
reconstructSliceNoSkip ==
    /\ dl.pc = "slice"
    /\ LET size == EncryptedChunkSize(dl.i, dl.totalChunks,
                                      Len(dl.encryptedBlob), dl.offset,
                                      ChunkSize)
           line == [i |-> dl.i, offset |-> dl.offset, size |-> size]
       IN  dl' = [dl EXCEPT !.iv = Atob(dl.ivs[dl.i + 1]),
                            !.size = size,
                            !.log = Append(@, line),
                            !.chunkBuffer =
                                Slice(dl.encryptedBlob, dl.offset,
                                      dl.offset + size),
                            !.pc = "derive"]
    /\ UNCHANGED <<page, token, uploadVars, stored, isLoading, dlProgress,
                   saved, dlAlert, kdf, auth,
                   admin>>
\* reconstructFile: the IV, currentEncryptedChunkSize, the skip, the slice
reconstructSlice ==
    /\ dl.pc = "slice"
    /\ LET size == EncryptedChunkSize(dl.i, dl.totalChunks,
                                      Len(dl.encryptedBlob), dl.offset,
                                      ChunkSize)
           line == [i |-> dl.i, offset |-> dl.offset, size |-> size]
       IN  IF size <= 0
           THEN dl' = [dl EXCEPT !.iv = Atob(dl.ivs[dl.i + 1]),
                                 !.size = size,
                                 !.log = Append(@, line),
                                 !.i = @ + 1,
                                 !.pc = DlLoopPc(dl.i + 1, dl.totalChunks)]
           ELSE dl' = [dl EXCEPT !.iv = Atob(dl.ivs[dl.i + 1]),
                                 !.size = size,
                                 !.log = Append(@, line),
                                 !.chunkBuffer =
                                     Slice(dl.encryptedBlob, dl.offset,
                                           dl.offset + size),
                                 !.pc = "derive"]
    /\ UNCHANGED <<page, token, uploadVars, stored, isLoading, dlProgress,
                   saved, dlAlert, kdf, auth,
                   admin>>

\* faulty variant of reconstructDeriveKey: the key of the next index
reconstructDeriveKeyNextIndex ==
    /\ dl.pc = "derive"
    /\ LET r == deriveChunkKey(dl.masterKey, dl.i + 1)
       IN  IF r.ok
           THEN /\ dl' = [dl EXCEPT !.chunkKey = r.key, !.pc = "decrypt"]
                /\ UNCHANGED <<dlAlert, isLoading>>
           ELSE DownloadCatch("failed")
    /\ UNCHANGED <<page, token, uploadVars, stored, dlProgress, saved, kdf, auth,
                   admin>>
\* reconstructFile: deriveChunkKey(masterKey, i)
reconstructDeriveKey ==
    /\ dl.pc = "derive"
    /\ LET r == deriveChunkKey(dl.masterKey, dl.i)
       IN  IF r.ok
           THEN /\ dl' = [dl EXCEPT !.chunkKey = r.key, !.pc = "decrypt"]
                /\ UNCHANGED <<dlAlert, isLoading>>
           ELSE DownloadCatch("failed")
    /\ UNCHANGED <<page, token, uploadVars, stored, dlProgress, saved, kdf, auth,
                   admin>>

\* faulty variant of DecryptionFailed: the rejection of decryptChunk is
\* passed on
DecryptionFailedTyped(r, i) == [message |-> r.err, chunk |-> i]
\* the Error reconstructFile throws from its catch, whatever decryptChunk
\* rejected with (r)
DecryptionFailed(r, i) ==
    [message |-> "Decryption failed at chunk. The file might be corrupted or the key is incorrect.",
     chunk |-> i]

\* faulty variant of ReconstructCatch: the failing chunk is skipped and the
\* loop goes on
ReconstructCatchSkip(r) ==
    /\ dl' = [dl EXCEPT !.i = @ + 1,
                        !.offset = @ + dl.size,
                        !.pc = DlLoopPc(dl.i + 1, dl.totalChunks)]
    /\ UNCHANGED <<dlAlert, isLoading>>
\* reconstructFile: a rejected decryptChunk; the Error reaches handleDownload's
\* catch and finally
ReconstructCatch(r) ==
    /\ dl' = [dl EXCEPT !.error = DecryptionFailed(r, dl.i), !.pc = "failed"]
    /\ dlAlert' = "Download/Decryption failed"
    /\ isLoading' = FALSE

\* faulty variant of reconstructDecrypt: onProgress is called before the
\* decryption is awaited
reconstructDecryptProgressEarly ==
    /\ dl.pc = "decrypt"
    /\ dlProgress' = Append(dlProgress, ProgressValue(dl.i, dl.totalChunks))
    /\ LET r == decryptChunk(dl.chunkBuffer, dl.chunkKey, dl.iv)
       IN  IF r.ok
           THEN /\ dl' = [dl EXCEPT
                            !.decryptedChunks = Append(@, r.data),
                            !.decrypts = Append(@, [i |-> dl.i,
                                                    data |-> dl.chunkBuffer,
                                                    key |-> dl.chunkKey,
                                                    iv |-> dl.iv]),
                            !.offset = @ + dl.size,
                            !.i = @ + 1,
                            !.pc = DlLoopPc(dl.i + 1, dl.totalChunks)]
                /\ UNCHANGED <<dlAlert, isLoading>>
           ELSE ReconstructCatch(r)
    /\ UNCHANGED <<page, token, uploadVars, stored, saved, kdf, auth,
                   admin>>
\* reconstructFile: decryptChunk, then push, offset, onProgress, or the catch
reconstructDecrypt ==
    /\ dl.pc = "decrypt"
    /\ LET r == decryptChunk(dl.chunkBuffer, dl.chunkKey, dl.iv)
       IN  IF r.ok
           THEN /\ dl' = [dl EXCEPT
                            !.decryptedChunks = Append(@, r.data),
                            !.decrypts = Append(@, [i |-> dl.i,
                                                    data |-> dl.chunkBuffer,
                                                    key |-> dl.chunkKey,
                                                    iv |-> dl.iv]),
                            !.offset = @ + dl.size,
                            !.i = @ + 1,
                            !.pc = DlLoopPc(dl.i + 1, dl.totalChunks)]
                /\ dlProgress' =
                       Append(dlProgress, ProgressValue(dl.i, dl.totalChunks))
                /\ UNCHANGED <<dlAlert, isLoading>>
           ELSE /\ ReconstructCatch(r)
                /\ UNCHANGED dlProgress
    /\ UNCHANGED <<page, token, uploadVars, stored, saved, kdf, auth,
                   admin>>

\* faulty variant of reconstructReturn: the blob is saved whatever its size
reconstructReturnAlways ==
    /\ dl.pc = "return"
    /\ LET blob == Flatten(dl.decryptedChunks)
       IN  /\ dl' = [dl EXCEPT !.returned = TRUE, !.result = blob,
                               !.pc = "done"]
           /\ saved' = [done |-> TRUE, bytes |-> blob]
           /\ UNCHANGED dlAlert
    /\ isLoading' = FALSE
    /\ UNCHANGED <<page, token, uploadVars, stored, dlProgress, kdf, auth,
                   admin>>
\* reconstructFile returns the blob; handleDownload saves it unless it is empty
reconstructReturn ==
    /\ dl.pc = "return"
    /\ LET blob == Flatten(dl.decryptedChunks)
       IN  /\ dl' = [dl EXCEPT !.returned = TRUE, !.result = blob,
                               !.pc = "done"]
           /\ IF Len(blob) = 0
              THEN /\ dlAlert' = "Decryption resulted in an empty file"
                   /\ UNCHANGED saved
              ELSE /\ saved' = [done |-> TRUE, bytes |-> blob]
                   /\ UNCHANGED dlAlert
    /\ isLoading' = FALSE
    /\ UNCHANGED <<page, token, uploadVars, stored, dlProgress, kdf, auth,
                   admin>>

\* ------------------------------------------------------------ navigation
\* leaving the upload page for the files page unmounts UploadPage
GoToFiles ==
    /\ page = "upload"
    /\ up.pc \notin UpRunning
    /\ page' = "files"
    /\ ResetUploadPage
    /\ up' = UpIdle
    /\ upProgress' = <<>>
    /\ request' = NoRequest
    /\ UNCHANGED <<token, stored, downloadVars, kdf, auth,
                   admin>>

\* ---------------------------------------------- AuthProvider and routes
\* a User | null of AuthProvider, by its role
NoUser == [isNull |-> TRUE, role |-> ""]
UserOf(role) == [isNull |-> FALSE, role |-> role]
Users == {UserOf("admin"), UserOf("user")}
\* tokens the backend issues
AuthTokens == {"jwt", "jwt2"}

\* a localStorage entry: absent, a JSON text, or a text that is not JSON
AbsentText == [kind |-> "absent", value |-> NoUser]
CorruptText == [kind |-> "corrupt", value |-> NoUser]
\* JSON.stringify(userData)
JsonStringify(u) == [kind |-> "json", value |-> u]
\* JSON.parse(text): throws on a text that is not JSON
JsonParse(text) ==
    IF text.kind = "json" THEN [ok |-> TRUE, value |-> text.value]
    ELSE [ok |-> FALSE, value |-> NoUser]
EmptyStorage == [authToken |-> NoToken, user |-> AbsentText]
\* what localStorage can hold when the page is loaded
Storages ==
    [authToken : {NoToken} \cup AuthTokens,
     user : {AbsentText, CorruptText} \cup {JsonStringify(u) : u \in Users}]

AdminRoutes == {"/admin/dashboard", "/admin/users", "/admin/files",
                "/admin/logs"}
UserRoutes == {"/dashboard", "/upload", "/files"}
ProtectedRoutes == UserRoutes \cup AdminRoutes
\* the paths a visitor can ask for
Paths == ProtectedRoutes \cup {"/", "/login", "/admin", "/other"}

\* isAuthenticated: !!user && !!token
IsAuthenticated(user, tok) == ~user.isNull /\ tok # NoToken

\* what a route element renders: its children or page, or <Navigate to>
Children == [navigate |-> FALSE, to |-> ""]
NavigateTo(path) == [navigate |-> TRUE, to |-> path]

\* faulty variant of ProtectedRoute: the role is not examined
ProtectedRouteNoRole(isAuthenticated, user, adminOnly) ==
    IF ~isAuthenticated THEN NavigateTo("/login") ELSE Children
\* ProtectedRoute({children, adminOnly})
ProtectedRoute(isAuthenticated, user, adminOnly) ==
    IF ~isAuthenticated THEN NavigateTo("/login")
    ELSE IF adminOnly /\ user.role # "admin" THEN NavigateTo("/dashboard")
    ELSE Children

\* the element <Routes> renders for a path; UploadPage navigates an admin to
\* /admin/dashboard
RouteElement(path, user, tok) ==
    CASE path \in AdminRoutes ->
             ProtectedRoute(IsAuthenticated(user, tok), user, TRUE)
      [] path = "/upload" ->
             LET e == ProtectedRoute(IsAuthenticated(user, tok), user, FALSE)
             IN  IF ~e.navigate /\ user.role = "admin"
                 THEN NavigateTo("/admin/dashboard")
                 ELSE e
      [] path \in {"/dashboard", "/files"} ->
             ProtectedRoute(IsAuthenticated(user, tok), user, FALSE)
      [] path = "/admin" -> NavigateTo("/admin/dashboard")
      [] path \in {"/", "/login"} -> Children
      [] OTHER -> NavigateTo("/")

RECURSIVE Settle(_, _, _)
\* where the router ends up from a path, following every <Navigate>
Settle(path, user, tok) ==
    LET e == RouteElement(path, user, tok)
    IN  IF e.navigate THEN Settle(e.to, user, tok) ELSE path

AuthIdle == [phase |-> "unloaded", user |-> NoUser, storage |-> EmptyStorage,
             requested |-> "", location |-> "", element |-> Children,
             direct |-> FALSE]

\* the page is loaded at a path: the first render, with useState(null) for
\* user and token
LoadPage(path) ==
    /\ auth.phase \in {"unloaded", "mounted"}
    /\ token' = NoToken
    /\ auth' = [auth EXCEPT !.phase = "rendered",
                            !.user = NoUser,
                            !.requested = path,
                            !.location = path,
                            !.element = RouteElement(path, NoUser, NoToken),
                            !.direct = TRUE]
    /\ UNCHANGED <<page, uploadVars, stored, downloadVars, kdf, admin>>

\* the effect of AuthProvider: getItem, setToken, JSON.parse, setUser, and
\* the catch that removes both entries
AuthProviderMount(storage) ==
    IF storage.authToken # NoToken /\ storage.user.kind # "absent"
    THEN IF JsonParse(storage.user).ok
         THEN [token |-> storage.authToken,
               user |-> JsonParse(storage.user).value,
               storage |-> storage]
         ELSE [token |-> storage.authToken, user |-> NoUser,
               storage |-> EmptyStorage]
    ELSE [token |-> NoToken, user |-> NoUser, storage |-> storage]

\* the effects of the first render run, the effect of a rendered <Navigate>
\* before the effect of AuthProvider; then the tree is rendered again
FlushEffects ==
    /\ auth.phase = "rendered"
    /\ LET m == AuthProviderMount(auth.storage)
           at == IF auth.element.navigate THEN auth.element.to
                 ELSE auth.location
       IN  /\ token' = m.token
           /\ auth' = [auth EXCEPT !.phase = "mounted",
                                   !.user = m.user,
                                   !.storage = m.storage,
                                   !.location = Settle(at, m.user, m.token),
                                   !.element = Children]
    /\ UNCHANGED <<page, uploadVars, stored, downloadVars, kdf, admin>>

\* login(userData, authToken), called by LoginPage, which then navigates to
\* the dashboard of the role
login(userData, authToken) ==
    /\ auth.phase = "mounted"
    /\ auth.location = "/login"
    /\ token' = authToken
    /\ LET destination == IF userData.role = "admin" THEN "/admin/dashboard"
                          ELSE "/dashboard"
       IN  auth' = [auth EXCEPT
                       !.user = userData,
                       !.storage = [authToken |-> authToken,
                                    user |-> JsonStringify(userData)],
                       !.location = Settle(destination, userData, authToken),
                       !.direct = FALSE]
    /\ UNCHANGED <<page, uploadVars, stored, downloadVars, kdf, admin>>

\* logout(); the routes are rendered again
logout ==
    /\ auth.phase = "mounted"
    /\ auth.location \in ProtectedRoutes
    /\ token' = NoToken
    /\ auth' = [auth EXCEPT !.user = NoUser,
                            !.storage = EmptyStorage,
                            !.location = Settle(auth.location, NoUser, NoToken),
                            !.direct = FALSE]
    /\ UNCHANGED <<page, uploadVars, stored, downloadVars, kdf, admin>>

\* navigation inside the loaded application
GoTo(path) ==
    /\ auth.phase = "mounted"
    /\ auth' = [auth EXCEPT !.requested = path,
                            !.location = Settle(path, auth.user, token),
                            !.direct = FALSE]
    /\ UNCHANGED <<page, token, uploadVars, stored, downloadVars, kdf, admin>>

\* ------------------------------------------------------------ AdminUsers
UserIds == {"u1", "u2", "root"}
\* role of a user of the list; the freeze button of an admin is disabled
RoleOf(id) == IF id = "root" THEN "admin" ELSE "user"
Statuses == {"active", "frozen"}
NoCall == [pc |-> "idle", users |-> [id \in UserIds |-> "active"],
           shouldFreeze |-> FALSE]
AdminIdle == [loaded |-> FALSE,
              users |-> [id \in UserIds |-> "active"],
              server |-> [id \in UserIds |-> "active"],
              actionLoading |-> "",
              calls |-> [id \in UserIds |-> NoCall]]

\* fetchUsers: the response of /admin/users
fetchUsers(success) ==
    /\ IF success
       THEN admin' = [admin EXCEPT !.loaded = TRUE, !.users = admin.server]
       ELSE UNCHANGED admin
    /\ UNCHANGED <<page, token, uploadVars, stored, downloadVars, kdf, auth>>

\* handleToggleFreeze(userId, currentStatus) up to its await: the button is
\* enabled unless actionLoading is this user or the user is an admin; the
\* call keeps the users of the render it was created in
handleToggleFreeze(userId, confirmed) ==
    /\ admin.loaded
    /\ admin.actionLoading # userId
    /\ RoleOf(userId) # "admin"
    /\ admin.calls[userId].pc = "idle"
    /\ IF confirmed
       THEN admin' = [admin EXCEPT
                         !.actionLoading = userId,
                         !.calls[userId] =
                             [pc |-> "inflight",
                              users |-> admin.users,
                              shouldFreeze |->
                                  admin.users[userId] # "frozen"]]
       ELSE UNCHANGED admin
    /\ UNCHANGED <<page, token, uploadVars, stored, downloadVars, kdf, auth>>

\* the status handleToggleFreeze writes
ToggledStatus(shouldFreeze) == IF shouldFreeze THEN "frozen" ELSE "active"

\* setUsers(users.map(...)) of handleToggleFreeze: the list the call was
\* created with, the toggled user's status replaced
SetUsersAfterToggle(call, userId) ==
    [call.users EXCEPT ![userId] = ToggledStatus(call.shouldFreeze)]

\* handleToggleFreeze after its await: the response, setUsers on success,
\* and the finally
toggleFreezeResponse(userId, success) ==
    /\ admin.calls[userId].pc = "inflight"
    /\ LET call == admin.calls[userId]
       IN  IF success
           THEN admin' = [admin EXCEPT
                             !.server[userId] =
                                 ToggledStatus(call.shouldFreeze),
                             !.users =
                                 SetUsersAfterToggle(call, userId),
                             !.actionLoading = "",
                             !.calls[userId] = NoCall]
           ELSE admin' = [admin EXCEPT !.actionLoading = "",
                                       !.calls[userId] = NoCall]
    /\ UNCHANGED <<page, token, uploadVars, stored, downloadVars, kdf, auth>>

\* ------------------------------------------------------------------ Spec
NoSaved == [done |-> FALSE, bytes |-> <<>>]
KdfIdle == <<>>

Init ==
    /\ page = "upload"
    /\ token \in Tokens
    /\ InitUploadPage
    /\ request = NoRequest
    /\ up = UpIdle
    /\ upProgress = <<>>
    /\ stored = NoStored
    /\ isLoading = FALSE
    /\ dl = DlIdle
    /\ dlProgress = <<>>
    /\ saved = NoSaved
    /\ dlAlert = ""
    /\ kdf = KdfIdle
    /\ auth = AuthIdle
    /\ admin = AdminIdle

Next ==
    \/ \E f \in Files : onDrop(f)
    \/ ClickSetStep1
    \/ handleUpload
    \/ \E k \in 1..NumKeys : processGenerateKey(k)
    \/ processReadChunk
    \/ processDeriveKey
    \/ \E n \in 1..NumIVs : processEncryptChunk(n)
    \/ processExportKey
    \/ processFails
    \/ handleUploadRegister
    \/ \E ok \in BOOLEAN : handleUploadResponse(ok)
    \/ GoToFiles
    \/ handleDownload
    \/ handleDownloadRefused
    \/ \E f \in Faults(stored) : handleDownloadFetched(f)
    \/ reconstructImportKey
    \/ reconstructSlice
    \/ reconstructDeriveKey
    \/ reconstructDecrypt
    \/ reconstructReturn

Spec == Init /\ [][Next]_vars

\* ------------------------------------------- deriveChunkKey called directly
\* calls made in one run
MaxKdfCalls == 2
\* chunk indices range over -MaxKdfIndex..MaxKdfIndex
MaxKdfIndex == 2

\* faulty variant of callDeriveChunkKey: the salt is drawn afresh for every
\* call (the number of the call stands for the drawn value)
callDeriveChunkKeyFreshSalt(k, extractable, chunkIndex) ==
    /\ Len(kdf) < MaxKdfCalls
    /\ LET masterKey == CryptoKey("AES-GCM", KeyBytes(k), extractable)
           r == deriveChunkKey(masterKey, chunkIndex)
           salted == [r EXCEPT !.key.raw =
                         IF r.ok
                         THEN Hkdf(masterKey.raw,
                                   [j \in 1..SALT_LEN |-> Len(kdf) + 1],
                                   ChunkInfo(chunkIndex))
                         ELSE @]
       IN  kdf' = Append(kdf, [masterKey |-> masterKey,
                               chunkIndex |-> chunkIndex,
                               result |-> salted])
    /\ UNCHANGED <<page, token, uploadVars, stored, downloadVars, auth, admin>>
\* a caller passes a master key (extractable or not) and an index
callDeriveChunkKey(k, extractable, chunkIndex) ==
    /\ Len(kdf) < MaxKdfCalls
    /\ LET masterKey == CryptoKey("AES-GCM", KeyBytes(k), extractable)
       IN  kdf' = Append(kdf, [masterKey |-> masterKey,
                               chunkIndex |-> chunkIndex,
                               result |-> deriveChunkKey(masterKey, chunkIndex)])
    /\ UNCHANGED <<page, token, uploadVars, stored, downloadVars, auth, admin>>

NextKdf ==
    \E k \in 1..NumKeys, e \in BOOLEAN, x \in (-MaxKdfIndex)..MaxKdfIndex :
        callDeriveChunkKey(k, e, x)

SpecKdf == Init /\ [][NextKdf]_vars

\* ------------------------------------------- AuthProvider and the router
InitAuth ==
    /\ page = "upload"
    /\ token = NoToken
    /\ InitUploadPage
    /\ request = NoRequest
    /\ up = UpIdle
    /\ upProgress = <<>>
    /\ stored = NoStored
    /\ isLoading = FALSE
    /\ dl = DlIdle
    /\ dlProgress = <<>>
    /\ saved = NoSaved
    /\ dlAlert = ""
    /\ kdf = KdfIdle
    /\ auth \in {[AuthIdle EXCEPT !.storage = st] : st \in Storages}
    /\ admin = AdminIdle

NextAuth ==
    \/ \E path \in Paths : LoadPage(path)
    \/ FlushEffects
    \/ \E u \in Users, t \in AuthTokens : login(u, t)
    \/ logout
    \/ \E path \in Paths : GoTo(path)

SpecAuth == InitAuth /\ [][NextAuth]_vars

\* ------------------------------------------------------------ AdminUsers
NextAdmin ==
    \/ \E ok \in BOOLEAN : fetchUsers(ok)
    \/ \E id \in UserIds, c \in BOOLEAN : handleToggleFreeze(id, c)
    \/ \E id \in UserIds, ok \in BOOLEAN : toggleFreezeResponse(id, ok)

SpecAdmin == Init /\ [][NextAdmin]_vars

\* ---------------------------------------------------------------- claims
NonDecreasing(ps) == \A k \in 1..(Len(ps) - 1) : LeqQ(ps[k], ps[k + 1])
\* reconstructFile, once called, has ended (returned or thrown)
DlEnded == dl.pc \in {"done", "failed"}
\* the loop of processFileForUpload has run to its end
UpLoopDone == up.pc \in {"export", "returned", "register", "done", "rejected"}
\* size of the plaintext range <<start, end>>
RangeSize(r) == r[2] - r[1]
\* plaintext sizes of the chunks of a file of `size` bytes
ChunkSizes(size, c) ==
    [k \in 1..TotalChunks(size, c) |->
        ChunkEnd(k - 1, size, c) - ChunkStart(k - 1, c)]

\* C1: round trip. A download that is handed exactly what the upload
\* registered (the concatenated chunk ciphertexts, the exported key, the IV
\* list) never fails, and reconstructFile returns exactly the bytes of the
\* uploaded file, for every file length 0..MaxFileLen.
C1_RoundTrip ==
    (dl.fault.kind = "none" /\ DlEnded) =>
        /\ dl.pc = "done"
        /\ dl.returned
        /\ dl.result = stored.plain
\* a file of several chunks with a partial last chunk has made the round trip
C1_Witness ==
    /\ dl.fault.kind = "none"
    /\ dl.pc = "done"
    /\ Len(stored.plain) > ChunkSize
    /\ Len(stored.plain) % ChunkSize # 0
    /\ dl.result = stored.plain

\* C2: processFileForUpload computes totalChunks = ceil(L / C); the ranges it
\* reads are [i*C, min((i+1)*C, L)), contiguous from 0 to L, each of size C
\* but the last, which has a size in 1..C; it returns exactly totalChunks
\* chunks; at the real chunk size a file of 2,500,000 bytes gives the sizes
\* 1048576, 1048576, 402848.
C2_ChunkCount ==
    LET L == Len(up.file)
        n == up.totalChunks
    IN  /\ up.masterKey # NoKey =>
            /\ n * ChunkSize >= L
            /\ (n - 1) * ChunkSize < L \/ (L = 0 /\ n = 0)
            /\ Len(up.reads) <= n
            /\ \A k \in 1..Len(up.reads) :
                   /\ up.reads[k][1] = (k - 1) * ChunkSize
                   /\ k = 1 => up.reads[k][1] = 0
                   /\ k > 1 => up.reads[k][1] = up.reads[k - 1][2]
                   /\ k < n => RangeSize(up.reads[k]) = ChunkSize
                   /\ k = n => /\ RangeSize(up.reads[k]) \in 1..ChunkSize
                               /\ up.reads[k][2] = L
        /\ UpLoopDone => Len(up.reads) = n /\ Len(up.chunks) = n
        /\ up.result.returned => Len(up.result.chunks) = n
        /\ ChunkSizes(2500000, CHUNK_SIZE) = <<1048576, 1048576, 402848>>
\* a file of three chunks with a partial last chunk was processed to the end
C2_Witness ==
    /\ up.result.returned
    /\ up.totalChunks = 3
    /\ RangeSize(up.reads[3]) < ChunkSize

\* C3: every index i that reconstructFile reaches has offset i * (C + 16);
\* the ciphertext length it computes is C + 16 for i < N - 1 and S - offset
\* for i = N - 1; at the real chunk size, S = 2 * (C + 16) + 50 and N = 3
\* give the lengths C + 16, C + 16, 50.
C3_Offsets ==
    LET S == Len(dl.encryptedBlob)
        N == dl.totalChunks
        C == CHUNK_SIZE
    IN  /\ \A k \in 1..Len(dl.log) :
               /\ dl.log[k].i = k - 1
               /\ dl.log[k].offset = (k - 1) * (ChunkSize + 16)
               /\ k - 1 < N - 1 => dl.log[k].size = ChunkSize + 16
               /\ k - 1 = N - 1 => dl.log[k].size = S - dl.log[k].offset
        /\ EncryptedChunkSize(0, 3, 2 * (C + 16) + 50, 0, C) = C + 16
        /\ EncryptedChunkSize(1, 3, 2 * (C + 16) + 50, C + 16, C) = C + 16
        /\ EncryptedChunkSize(2, 3, 2 * (C + 16) + 50, 2 * (C + 16), C) = 50
\* a blob of two full chunks and a shorter third, with a manifest of three
C3_Witness ==
    /\ dl.totalChunks = 3
    /\ Len(dl.log) = 3
    /\ Len(dl.encryptedBlob) > 2 * (ChunkSize + 16)
    /\ Len(dl.encryptedBlob) < 3 * (ChunkSize + 16)
    /\ dl.log[3].offset = 2 * (ChunkSize + 16)
    /\ dl.log[3].size = Len(dl.encryptedBlob) - 2 * (ChunkSize + 16)

\* C4: the loop of reconstructFile goes past an index only if the index was
\* skipped or its chunk was decrypted; a chunk whose decryption fails ends the
\* call with the error naming that index: no later index is sliced, no
\* further progress is reported, nothing is returned and nothing is saved.
C4_AbortOnFailure ==
    /\ \A k \in 1..Len(dl.log) :
           (dl.log[k].i < dl.i /\ dl.log[k].size > 0) =>
               \E d \in 1..Len(dl.decrypts) : dl.decrypts[d].i = dl.log[k].i
    /\ (dl.pc = "failed" /\ dl.error.chunk >= 0) =>
           /\ dl.error.chunk = dl.i
           /\ ~decryptChunk(dl.chunkBuffer, dl.chunkKey, dl.iv).ok
           /\ Len(dl.log) = dl.i + 1
           /\ Last(dl.log).i = dl.i
           /\ Len(dlProgress) = dl.i
           /\ Len(dl.decryptedChunks) = dl.i
           /\ ~dl.returned
           /\ dl.result = <<>>
           /\ ~saved.done
\* the second chunk failed to decrypt after the first had been decrypted
C4_Witness ==
    /\ dl.pc = "failed"
    /\ dl.error.chunk = 1
    /\ Len(dl.decryptedChunks) = 1
    /\ dl.totalChunks = 3

\* C5 as stated: both progress sequences are non-decreasing, and a call that
\* completes has reported 100 last.
C5_Original ==
    /\ NonDecreasing(upProgress)
    /\ NonDecreasing(dlProgress)
    /\ up.result.returned =>
           upProgress # <<>> /\ EqQ(Last(upProgress), Whole(100))
    /\ dl.returned =>
           dlProgress # <<>> /\ EqQ(Last(dlProgress), Whole(100))
\* C5 amended: both progress sequences are non-decreasing; a call that
\* completes after processing every index of at least one chunk has reported
\* exactly 100 last; a call over zero chunks reports nothing, and
\* reconstructFile, when it skips its last index, completes with every
\* reported value below 100.
C5_Progress ==
    /\ NonDecreasing(upProgress)
    /\ NonDecreasing(dlProgress)
    /\ up.result.returned =>
           IF up.totalChunks = 0 THEN upProgress = <<>>
           ELSE EqQ(Last(upProgress), Whole(100))
    /\ dl.returned =>
           IF Len(dl.decrypts) = dl.totalChunks /\ dl.totalChunks > 0
           THEN EqQ(Last(dlProgress), Whole(100))
           ELSE \A k \in 1..Len(dlProgress) :
                    ~LeqQ(Whole(100), dlProgress[k])
\* a download of three chunks completed with 100 reported last
C5_Witness ==
    /\ dl.returned
    /\ Len(dlProgress) = 3
    /\ EqQ(Last(dlProgress), Whole(100))
    /\ ~EqQ(dlProgress[1], dlProgress[2])

\* C6: every plaintext reconstructFile keeps is the decryption of a slice
\* that is exactly what encryptChunk produces for that plaintext under the
\* chunk key and IV of its index; a blob with one octet changed (in a body or
\* in a tag), a changed IV, or a wrong key for a file with chunks never
\* yields a returned or saved file, and a changed octet fails at the chunk
\* that holds it.
C6_TamperDetection ==
    /\ \A d \in 1..Len(dl.decrypts) :
           dl.decrypts[d].data =
               encryptChunk(dl.decryptedChunks[d], dl.decrypts[d].key,
                            dl.decrypts[d].iv).encryptedData
    /\ (\/ dl.fault.kind \in {"flip", "wrongIv"}
        \/ dl.fault.kind = "wrongKey" /\ dl.ivs # <<>>) =>
           /\ ~dl.returned
           /\ ~saved.done
           /\ dl.pc \notin {"return", "done"}
    /\ (dl.fault.kind = "flip" /\ dl.pc = "failed") =>
           dl.error.chunk = (dl.fault.arg - 1) \div (ChunkSize + TAG_LEN)
\* a changed tag octet of the second chunk made the second decryption fail
C6_Witness ==
    /\ dl.fault.kind = "flip"
    /\ dl.fault.arg = 2 * (ChunkSize + TAG_LEN)
    /\ dl.pc = "failed"
    /\ dl.error.chunk = 1

\* C7: the wrappedKey field of the form posted to /api/files/register is not
\* the raw master key under base64: decoding it does not give the key bytes.
C7_KeyNotPlain ==
    request.sent => Atob(request.wrappedKey) # up.masterKey.raw

\* C8 as stated: a call of deriveChunkKey with a negative index fails.
C8_Original ==
    \A c \in 1..Len(kdf) : kdf[c].chunkIndex < 0 => ~kdf[c].result.ok
\* C8 amended: deriveChunkKey does not examine the index. With an extractable
\* master key it returns, for a negative index as for any other, the
\* non-extractable AES-GCM key derived from the key bytes, the zero salt and
\* the info chunk-<index>; it fails only for a key that cannot be exported.
C8_NoIndexCheck ==
    \A c \in 1..Len(kdf) :
        /\ kdf[c].result.ok = kdf[c].masterKey.extractable
        /\ kdf[c].result.ok =>
               /\ kdf[c].result.key.alg = "AES-GCM"
               /\ ~kdf[c].result.key.extractable
               /\ kdf[c].result.key.raw.ikm = kdf[c].masterKey.raw
               /\ kdf[c].result.key.raw.info =
                      <<99, 104, 117, 110, 107, 45>>
                          \o DecimalBytes(kdf[c].chunkIndex)
               /\ \A j \in 1..SALT_LEN : kdf[c].result.key.raw.salt[j] = 0
\* deriveChunkKey returned a key for a negative index
C8_Witness ==
    \E c \in 1..Len(kdf) :
        /\ kdf[c].chunkIndex < 0
        /\ kdf[c].result.ok
        /\ kdf[c].result.key.raw.info[7] = 45

\* a ciphertext of full length whose tag does not verify
BadTagData == [p \in 1..TAG_LEN |-> BodyOctet(0)]
\* reconstructFile failed on a slice too short to hold a tag
FailedOnShortSlice ==
    /\ dl.pc = "failed"
    /\ dl.error.chunk >= 0
    /\ Len(dl.chunkBuffer) < TAG_LEN

\* C9 as stated: the error reported for a slice too short to hold a tag
\* differs from the error reported, at the same index with the same key and
\* IV, for a tag that does not verify.
C9_Original ==
    FailedOnShortSlice =>
        /\ ~decryptChunk(BadTagData, dl.chunkKey, dl.iv).ok
        /\ dl.error #
               DecryptionFailed(decryptChunk(BadTagData, dl.chunkKey, dl.iv),
                                dl.i)
        /\ decryptChunk(dl.chunkBuffer, dl.chunkKey, dl.iv).err #
               decryptChunk(BadTagData, dl.chunkKey, dl.iv).err
\* C9 amended: a slice too short to hold a 16-byte tag and a tag that does
\* not verify are reported alike: decryptChunk rejects both with an
\* OperationError and reconstructFile throws the same "Decryption failed at
\* chunk i" error for both, which differ in nothing but the index.
C9_SameError ==
    (dl.pc = "failed" /\ dl.error.chunk >= 0) =>
        /\ decryptChunk(dl.chunkBuffer, dl.chunkKey, dl.iv).err = "OperationError"
        /\ decryptChunk(BadTagData, dl.chunkKey, dl.iv).err = "OperationError"
        /\ dl.error.message =
               "Decryption failed at chunk. The file might be corrupted or the key is incorrect."
        /\ dl.error.chunk = dl.i
        /\ dlAlert = "Download/Decryption failed"
\* a truncated blob left a last slice of 1..15 octets, and decryption failed
C9_Witness ==
    /\ FailedOnShortSlice
    /\ Len(dl.chunkBuffer) > 0
    /\ dl.fault.kind = "truncate"

\* C10: once a read, a key derivation or an encryption of
\* processFileForUpload has failed, the call is over: it has returned
\* nothing, the chunks stay those encrypted before the failure, no later
\* chunk is read, no request is sent to the backend, nothing is registered,
\* and the page shows the failure with isUploading reset.
C10_UploadAborts ==
    up.threw =>
        /\ up.pc = "failed"
        /\ ~up.result.returned
        /\ up.result = NoResult
        /\ Len(up.chunks) = up.i
        /\ Len(up.reads) <= up.i + 1
        /\ Len(upProgress) = up.i
        /\ ~request.sent
        /\ ~stored.has
        /\ ~isUploading
        /\ uploadAlert = "Upload failed"
\* the second chunk of a file failed after the first had been encrypted
C10_Witness ==
    /\ up.threw
    /\ up.i = 1
    /\ Len(up.chunks) = 1
    /\ Len(up.reads) = 2
    /\ up.totalChunks = 3

\* indices -MaxInfoIndex \div 2 .. MaxInfoIndex whose info octets are compared
MaxInfoIndex == 12

C12_DomainSeparation ==
    /\ \A c, d \in 1..Len(kdf) :
           (/\ kdf[c].masterKey = kdf[d].masterKey
            /\ kdf[c].chunkIndex # kdf[d].chunkIndex
            /\ kdf[c].result.ok) =>
               /\ kdf[d].result.ok
               /\ kdf[c].result.key.raw.info # kdf[d].result.key.raw.info
               /\ kdf[c].result.key # kdf[d].result.key
    /\ \A i, j \in (-(MaxInfoIndex \div 2))..MaxInfoIndex :
           i # j => ChunkInfo(i) # ChunkInfo(j)
    /\ ChunkInfo(10) = <<99, 104, 117, 110, 107, 45, 49, 48>>
\* deriveChunkKey returned keys for one master key and two distinct indices
C12_Witness ==
    /\ Len(kdf) >= 2
    /\ kdf[1].masterKey = kdf[2].masterKey
    /\ kdf[1].chunkIndex # kdf[2].chunkIndex
    /\ kdf[1].result.ok
    /\ kdf[2].result.ok

\* C13: every ciphertext encryptChunk returns is 16 octets longer than its
\* plaintext, for every plaintext length from 0 on, and every IV has 12
\* octets (also after its base64 round trip); the blob posted for a file of
\* L bytes in N chunks has L + 16 * N octets.
C13_Lengths ==
    /\ \A k \in 1..Len(up.chunks) :
           /\ Len(up.chunks[k].data) = RangeSize(up.reads[k]) + 16
           /\ Len(Atob(up.chunks[k].iv)) = 12
    /\ request.sent =>
           /\ request.size = Len(up.file)
           /\ Len(request.file) = Len(up.file) + 16 * up.totalChunks
    /\ stored.has =>
           Len(stored.blob) =
               Len(stored.plain)
                   + 16 * TotalChunks(Len(stored.plain), ChunkSize)
    /\ \A n \in 0..ChunkSize, v \in 1..NumIVs :
           LET r == encryptChunk([j \in 1..n |-> j],
                                 deriveChunkKey(generateFileKey(1), 0).key,
                                 IvBytes(v))
           IN  Len(r.encryptedData) = n + 16 /\ Len(r.iv) = 12
\* a file of three chunks with a partial last chunk was posted
C13_Witness ==
    /\ request.sent
    /\ up.totalChunks = 3
    /\ Len(up.file) % ChunkSize # 0
    /\ Len(request.file) = Len(up.file) + 48

\* the chunk key and the IV a ciphertext was produced under
UsedKey(data) == Last(data)[2]
UsedIv(data) == Last(data)[3]

\* C14 as stated: no two encryptChunk calls of an upload return the same IV.
C14_Original ==
    \A k, m \in 1..Len(up.chunks) :
        k # m => up.chunks[k].iv # up.chunks[m].iv
\* C14 amended: encryptChunk draws every IV from the random source and
\* compares it with no earlier one, so two calls may return the same IV;
\* what holds for every outcome of the random source is that within one
\* processFileForUpload call no pair (chunk key, IV) is used twice, because
\* every index has its own chunk key, and that every ciphertext is listed
\* with the IV it was produced under.
C14_KeyIvPairs ==
    /\ \A k \in 1..Len(up.chunks) :
           /\ UsedIv(up.chunks[k].data) = Atob(up.chunks[k].iv)
           /\ \E v \in 1..NumIVs : UsedIv(up.chunks[k].data) = IvBytes(v)
    /\ \A k, m \in 1..Len(up.chunks) :
           k # m =>
               <<UsedKey(up.chunks[k].data), UsedIv(up.chunks[k].data)>> #
                   <<UsedKey(up.chunks[m].data), UsedIv(up.chunks[m].data)>>
\* two chunks of one upload were encrypted with the same IV under different
\* chunk keys
C14_Witness ==
    /\ Len(up.chunks) >= 2
    /\ up.chunks[1].iv = up.chunks[2].iv
    /\ UsedKey(up.chunks[1].data) # UsedKey(up.chunks[2].data)

\* C15: for a file of length 0 processFileForUpload computes totalChunks = 0,
\* reads and encrypts nothing, never calls onProgress and returns no chunks
\* together with the exported key; the upload page then posts an empty blob
\* and an empty IV list.
C15_EmptyFile ==
    (up.masterKey # NoKey /\ up.file = <<>>) =>
        /\ up.totalChunks = 0
        /\ up.reads = <<>>
        /\ up.keyed = <<>>
        /\ up.chunks = <<>>
        /\ upProgress = <<>>
        /\ up.pc \notin {"read", "derive", "encrypt"}
        /\ up.result.returned =>
               /\ up.result.chunks = <<>>
               /\ up.result.wrappedKey = Btoa(up.masterKey.raw)
               /\ Len(up.result.wrappedKey) = 44
        /\ request.sent => request.file = <<>> /\ request.ivs = <<>>
\* an empty file was processed and posted
C15_Witness ==
    /\ up.file = <<>>
    /\ up.result.returned
    /\ request.sent
    /\ up.pc = "done"

\* the positions of a blob at which a ciphertext ends (its last tag octet)
CipherEnds(blob) ==
    {j \in 1..Len(blob) : Len(blob[j]) = 4 /\ blob[j][1] = TAG_LEN}
\* where ciphertext i (from 0) of a blob ends and starts
ActualEnd(blob, i) ==
    CHOOSE e \in CipherEnds(blob) :
        Cardinality({x \in CipherEnds(blob) : x < e}) = i
ActualStart(blob, i) == IF i = 0 THEN 0 ELSE ActualEnd(blob, i - 1)
\* total length of the first n ciphertexts of chunks
LenUpTo(chunks, n) == SumSeq([k \in 1..n |-> Len(chunks[k].data)])

\* C16: in the blob the upload page builds, ciphertext i ends where the
\* lengths of the ciphertexts 0..i add up to, and there are totalChunks of
\* them; and for that blob with its own manifest, the offset and the length
\* reconstructFile computes at every index are the start and the length of
\* that index's ciphertext in the blob.
C16_OffsetsAgree ==
    /\ request.sent =>
           /\ Cardinality(CipherEnds(request.file)) = up.totalChunks
           /\ \A k \in 1..Len(up.result.chunks) :
                  /\ ActualEnd(request.file, k - 1) =
                         LenUpTo(up.result.chunks, k)
                  /\ Len(up.result.chunks[k].data) =
                         RangeSize(up.reads[k]) + TAG_LEN
    /\ dl.fault.kind = "none" =>
           /\ dl.encryptedBlob \in {<<>>, stored.blob}
           /\ \A k \in 1..Len(dl.log) :
                  /\ dl.log[k].i = k - 1
                  /\ dl.log[k].offset = ActualStart(stored.blob, k - 1)
                  /\ dl.log[k].size =
                         ActualEnd(stored.blob, k - 1)
                             - ActualStart(stored.blob, k - 1)
           /\ dl.pc \in {"derive", "decrypt"} =>
                  dl.chunkBuffer =
                      Slice(stored.blob, ActualStart(stored.blob, dl.i),
                            ActualEnd(stored.blob, dl.i))
\* reconstructFile went through the three ciphertexts of a blob whose last
\* ciphertext is shorter than the others
C16_Witness ==
    /\ dl.fault.kind = "none"
    /\ dl.pc = "done"
    /\ Len(dl.log) = 3
    /\ dl.log[3].size < ChunkSize + TAG_LEN
    /\ dl.log[3].offset = ActualStart(stored.blob, 2)

\* the size reconstructFile computes in the current state
CurrentSize ==
    EncryptedChunkSize(dl.i, dl.totalChunks, Len(dl.encryptedBlob), dl.offset,
                       ChunkSize)

\* C17: an index whose computed ciphertext length is zero or less is passed
\* in one step that only logs: the call does not fail, no key is derived and
\* nothing is decrypted for the index, nothing is appended to the output,
\* offset stays, no progress is reported, and the loop goes on with the next
\* index (the end of the loop, as only the last index can have such a size).
C17_SkipFrame ==
    /\ [](\A k \in 1..Len(dl.log) :
             dl.log[k].size <= 0 =>
                 /\ dl.log[k].i = dl.totalChunks - 1
                 /\ \A d \in 1..Len(dl.decrypts) :
                        dl.decrypts[d].i # dl.log[k].i)
    /\ [][(dl.pc = "slice" /\ CurrentSize <= 0) =>
              /\ dl'.pc = DlLoopPc(dl.i + 1, dl.totalChunks)
              /\ dl'.i = dl.i + 1
              /\ dl'.offset = dl.offset
              /\ dl'.decryptedChunks = dl.decryptedChunks
              /\ dl'.decrypts = dl.decrypts
              /\ dl'.chunkKey = dl.chunkKey
              /\ dl'.chunkBuffer = dl.chunkBuffer
              /\ dl'.error = dl.error
              /\ dlProgress' = dlProgress
              /\ dlAlert' = dlAlert
              /\ isLoading' = isLoading
              /\ saved' = saved]_vars
\* reconstructFile skipped an index of negative size after decrypting two
\* chunks, and returned
C17_Witness ==
    /\ dl.pc = "done"
    /\ dl.returned
    /\ dl.log # <<>>
    /\ Last(dl.log).size < 0
    /\ Len(dl.decryptedChunks) = Len(dl.log) - 1
    /\ Len(dl.decryptedChunks) >= 2

\* the number of ciphertexts in the registered blob
StoredChunks == Len(stored.ivs)

\* C18 as stated: with a manifest longer or shorter than the number of
\* ciphertexts in the blob, reconstructFile completes.
C18_Original ==
    (dl.fault.kind \in {"dropIv", "extraIv"} /\ DlEnded) => dl.pc = "done"
\* C18 amended: reconstructFile skips an index and completes only when the
\* manifest has exactly one IV more than the blob has ciphertexts: the extra
\* last index is skipped and the whole file is returned. With two or more
\* extra IVs the call aborts with the decryption error of the first extra
\* index; with a manifest that is shorter but not empty it aborts with the
\* decryption error of the manifest's last index; with an empty manifest it
\* returns an empty file without looking at the blob. Nothing is saved when
\* it aborts.
C18_ManifestMismatch ==
    /\ (dl.fault.kind = "extraIv" /\ dl.fault.arg = 1 /\ DlEnded) =>
           /\ dl.pc = "done"
           /\ Len(dl.log) = StoredChunks + 1
           /\ Last(dl.log).size <= 0
           /\ dl.result = stored.plain
    /\ (dl.fault.kind = "extraIv" /\ dl.fault.arg >= 2 /\ DlEnded) =>
           /\ dl.pc = "failed"
           /\ dl.error.chunk = StoredChunks
           /\ \A k \in 1..Len(dl.log) : dl.log[k].size > 0
           /\ ~dl.returned
           /\ ~saved.done
    /\ (dl.fault.kind = "dropIv" /\ dl.fault.arg < StoredChunks /\ DlEnded) =>
           /\ dl.pc = "failed"
           /\ dl.error.chunk = StoredChunks - dl.fault.arg - 1
           /\ \A k \in 1..Len(dl.log) : dl.log[k].size > 0
           /\ ~dl.returned
           /\ ~saved.done
    /\ (dl.fault.kind = "dropIv" /\ dl.fault.arg = StoredChunks /\ DlEnded) =>
           /\ dl.pc = "done"
           /\ dl.log = <<>>
           /\ dl.result = <<>>
           /\ ~saved.done
\* a manifest with two IVs too many made reconstructFile abort at the first
\* extra index, after it had decrypted every chunk of the file
C18_Witness ==
    /\ dl.fault.kind = "extraIv"
    /\ dl.fault.arg = 2
    /\ dl.pc = "failed"
    /\ StoredChunks = 3
    /\ dl.error.chunk = 3
    /\ Len(dl.decryptedChunks) = 3

\* the number of logged indices reconstructFile did not skip
Sliced == Cardinality({k \in 1..Len(dl.log) : dl.log[k].size > 0})

\* C19: within one call the chunks are processed one after the other in
\* index order. processFileForUpload reads chunk i only when the chunks
\* 0..i-1 have been read, keyed, encrypted and appended, and derives and
\* encrypts for chunk i before anything of chunk i+1; reconstructFile slices
\* index i only when every earlier index has been skipped or decrypted and
\* appended; offset never decreases within a call and grows with every
\* decrypted chunk.
C19_Sequential ==
    /\ [](/\ \A k \in 1..Len(up.keyed) : up.keyed[k] = k - 1
          /\ \A k \in 2..Len(up.reads) : up.reads[k][1] > up.reads[k - 1][1]
          /\ up.pc = "read" =>
                 /\ Len(up.reads) = up.i
                 /\ Len(up.keyed) = up.i
                 /\ Len(up.chunks) = up.i
          /\ up.pc = "derive" =>
                 /\ Len(up.reads) = up.i + 1
                 /\ Len(up.keyed) = up.i
                 /\ Len(up.chunks) = up.i
          /\ up.pc = "encrypt" =>
                 /\ Len(up.reads) = up.i + 1
                 /\ Len(up.keyed) = up.i + 1
                 /\ Len(up.chunks) = up.i
          /\ UpLoopDone => Len(up.chunks) = up.totalChunks
          /\ \A k \in 1..Len(dl.log) : dl.log[k].i = k - 1
          /\ \A d \in 1..Len(dl.decrypts) :
                 /\ dl.decrypts[d].i < dl.i
                 /\ d > 1 => dl.decrypts[d].i > dl.decrypts[d - 1].i
          /\ dl.pc \in {"slice", "return"} =>
                 /\ Len(dl.log) = dl.i
                 /\ Len(dl.decryptedChunks) = Sliced
                 /\ Len(dl.decrypts) = Sliced
          /\ dl.pc \in {"derive", "decrypt"} =>
                 /\ Len(dl.log) = dl.i + 1
                 /\ Len(dl.decryptedChunks) = Sliced - 1
                 /\ Len(dl.decrypts) = Sliced - 1)
    /\ [][/\ dl.pc \in {"import", "slice", "derive", "decrypt", "return"} =>
                 dl'.offset >= dl.offset
          /\ (dl.pc = "decrypt" /\ dl'.pc # "failed") =>
                 /\ dl'.offset > dl.offset
                 /\ dl'.i = dl.i + 1
          /\ (up.pc \in {"read", "derive", "encrypt"}
                 /\ up'.pc \in {"read", "derive", "encrypt", "export"}) =>
                 /\ up'.i >= up.i
                 /\ up'.i # up.i => (up.pc = "encrypt" /\ up'.i = up.i + 1)]_vars
\* the third chunk of a download is being decrypted after the first two were
\* appended, and offset has passed both
C19_Witness ==
    /\ dl.pc = "decrypt"
    /\ dl.i = 2
    /\ Len(dl.decryptedChunks) = 2
    /\ dl.offset = 2 * (ChunkSize + TAG_LEN)

\* C20: processFileForUpload returns totalChunks entries; entry i is the
\* ciphertext of plaintext chunk i under the chunk key of index i and the IV
\* whose base64 text the entry holds; the IV list and the blob the upload
\* page posts keep that order and length; a base64 IV decodes to the 12
\* octets it was made from, and the IV reconstructFile decodes at an index is
\* the one the index's ciphertext was produced under.
C20_IndexAligned ==
    /\ up.result.returned =>
           /\ Len(up.result.chunks) = up.totalChunks
           /\ \A k \in 1..Len(up.result.chunks) :
                  LET e == up.result.chunks[k]
                      plain == Slice(up.file, ChunkStart(k - 1, ChunkSize),
                                     ChunkEnd(k - 1, Len(up.file), ChunkSize))
                      key == deriveChunkKey(up.masterKey, k - 1).key
                  IN  /\ Len(Atob(e.iv)) = 12
                      /\ Atob(e.iv) = UsedIv(e.data)
                      /\ e.data =
                             encryptChunk(plain, key, Atob(e.iv)).encryptedData
    /\ request.sent =>
           /\ Len(request.ivs) = up.totalChunks
           /\ \A k \in 1..Len(request.ivs) :
                  request.ivs[k] = up.result.chunks[k].iv
           /\ request.file =
                  Flatten([k \in 1..Len(up.result.chunks) |->
                              up.result.chunks[k].data])
    /\ (dl.fault.kind = "none" /\ dl.pc \in {"derive", "decrypt"}) =>
           /\ Len(dl.iv) = 12
           /\ dl.iv = UsedIv(dl.chunkBuffer)
    /\ \A v \in 1..NumIVs :
           /\ Len(Btoa(IvBytes(v))) = 16
           /\ Atob(Btoa(IvBytes(v))) = IvBytes(v)
\* a file of three chunks, encrypted under IVs that are not all the same,
\* was posted
C20_Witness ==
    /\ request.sent
    /\ up.totalChunks = 3
    /\ request.ivs[1] # request.ivs[2]
    /\ Atob(request.ivs[3]) = UsedIv(up.result.chunks[3].data)

\* C21: the chunk at index i is processed under the key derived from the
\* master key and i, and under no key of another index. Upload encrypts
\* chunk i under deriveChunkKey(masterKey, i); download decrypts the slice of
\* index i under deriveChunkKey(masterKey, i); the plaintexts are kept in
\* the order of their indices and returned concatenated in that order, and
\* with the registered blob, key and manifest the plaintext of index i is
\* the i-th range of the file.
C21_KeyPerIndex ==
    /\ up.pc = "encrypt" =>
           up.chunkKey = deriveChunkKey(up.masterKey, up.i).key
    /\ \A k \in 1..Len(up.chunks) :
           /\ UsedKey(up.chunks[k].data) =
                  deriveChunkKey(up.masterKey, k - 1).key.raw
           /\ \A m \in 0..up.totalChunks :
                  m # k - 1 =>
                      UsedKey(up.chunks[k].data) #
                          deriveChunkKey(up.masterKey, m).key.raw
    /\ dl.pc = "decrypt" =>
           dl.chunkKey = deriveChunkKey(dl.masterKey, dl.i).key
    /\ Len(dl.decryptedChunks) = Len(dl.decrypts)
    /\ \A d \in 1..Len(dl.decrypts) :
           /\ dl.decrypts[d].key =
                  deriveChunkKey(dl.masterKey, dl.decrypts[d].i).key
           /\ UsedKey(dl.decrypts[d].data) = dl.decrypts[d].key.raw
           /\ \A e \in 1..Len(dl.decrypts) :
                  d < e => dl.decrypts[d].i < dl.decrypts[e].i
           /\ dl.fault.kind = "none" =>
                  dl.decryptedChunks[d] =
                      Slice(stored.plain,
                            ChunkStart(dl.decrypts[d].i, ChunkSize),
                            ChunkEnd(dl.decrypts[d].i, Len(stored.plain),
                                     ChunkSize))
    /\ dl.returned => dl.result = Flatten(dl.decryptedChunks)
\* the third slice of a download is about to be decrypted under the key of
\* index 2, after the slices of the indices 0 and 1
C21_Witness ==
    /\ dl.pc = "decrypt"
    /\ dl.i = 2
    /\ dl.chunkKey = deriveChunkKey(dl.masterKey, 2).key
    /\ Len(dl.decrypts) = 2
    /\ dl.decrypts[2].i = 1

\* a reported progress value lies in (0, 100]
InRange(p) == p[1] > 0 /\ p[2] > 0 /\ LeqQ(p, Whole(100))

\* C22: onProgress is called once for every chunk that was processed and
\* for nothing else, with ((index + 1) / total) * 100, in the step that
\* records the chunk's result: in upload together with the entry pushed for
\* the index, in download together with the pushed plaintext and with offset
\* advanced by the computed length of the slice; every value lies in
\* (0, 100].
C22_ProgressPerChunk ==
    /\ [](/\ Len(upProgress) = Len(up.chunks)
          /\ \A k \in 1..Len(upProgress) :
                 /\ upProgress[k] = ProgressValue(k - 1, up.totalChunks)
                 /\ InRange(upProgress[k])
          /\ Len(dlProgress) = Len(dl.decryptedChunks)
          /\ \A d \in 1..Len(dlProgress) :
                 /\ dlProgress[d] =
                        ProgressValue(dl.decrypts[d].i, dl.totalChunks)
                 /\ InRange(dlProgress[d]))
    /\ [][/\ (upProgress' # upProgress /\ upProgress' # <<>>) =>
                 /\ upProgress' =
                        Append(upProgress,
                               ProgressValue(up.i, up.totalChunks))
                 /\ Len(up'.chunks) = Len(up.chunks) + 1
                 /\ Len(up'.chunks) = up.i + 1
                 /\ up'.i = up.i + 1
          /\ (dlProgress' # dlProgress /\ dlProgress' # <<>>) =>
                 /\ dlProgress' =
                        Append(dlProgress,
                               ProgressValue(dl.i, dl.totalChunks))
                 /\ Len(dl'.decryptedChunks) = Len(dl.decryptedChunks) + 1
                 /\ Last(dl'.decrypts).i = dl.i
                 /\ dl'.offset = dl.offset + dl.size
                 /\ dl.fault.kind = "none" =>
                        dl'.offset = dl.offset + Len(dl.chunkBuffer)
          /\ (dl.pc = "decrypt" /\ dl'.pc = "failed") =>
                 dlProgress' = dlProgress]_vars
\* the second of three decrypted chunks was reported as two thirds
C22_Witness ==
    /\ Len(dlProgress) = 2
    /\ dl.totalChunks = 3
    /\ dlProgress[2] = <<200, 3>>
    /\ Len(dl.decryptedChunks) = 2

C24_SkipOnlyLast ==
    /\ \A k \in 1..Len(dl.log) :
           /\ k - 1 < dl.totalChunks - 1 =>
                  dl.log[k].size = ChunkSize + TAG_LEN
           /\ dl.log[k].size <= 0 => k - 1 = dl.totalChunks - 1
           /\ (dl.log[k].size > 0 /\ dl.log[k].i < dl.i) =>
                  \E d \in 1..Len(dl.decrypts) :
                      dl.decrypts[d].i = dl.log[k].i
    /\ Cardinality({k \in 1..Len(dl.log) : dl.log[k].size <= 0}) <= 1
    /\ dl.pc \in {"derive", "decrypt"} =>
           /\ Last(dl.log).size > 0
           /\ dl.chunkBuffer =
                  Slice(dl.encryptedBlob, dl.offset, dl.offset + dl.size)
    /\ (dl.fault.kind = "truncate" /\ DlEnded /\ dl.totalChunks > 0) =>
           IF dl.fault.arg = (dl.totalChunks - 1) * (ChunkSize + TAG_LEN)
           THEN dl.pc = "done" /\ Last(dl.log).size = 0
           ELSE /\ dl.pc = "failed"
                /\ dl.error.chunk =
                       Min(dl.fault.arg \div (ChunkSize + TAG_LEN),
                           dl.totalChunks - 1)
                /\ dl.log[dl.error.chunk + 1].size > 0
    /\ EncryptedChunkSize(0, 2, 17, 0, CHUNK_SIZE) = CHUNK_SIZE + 16
\* a blob cut short inside a ciphertext that is not the last one: the index
\* was sliced shorter than computed and its decryption failed
C24_Witness ==
    /\ dl.fault.kind = "truncate"
    /\ dl.pc = "failed"
    /\ dl.error.chunk >= 0
    /\ dl.error.chunk < dl.totalChunks - 1
    /\ Len(dl.chunkBuffer) < dl.size
    /\ Len(dl.chunkBuffer) > 0

\* the number of octets of the blob that were passed to decryptChunk
Consumed == SumSeq([d \in 1..Len(dl.decrypts) |-> Len(dl.decrypts[d].data)])

\* C25 as stated: whenever reconstructFile returns, every octet of the blob
\* was passed to decryptChunk.
C25_Original ==
    dl.returned => Consumed = Len(dl.encryptedBlob)
\* C25 amended: when reconstructFile returns for a manifest of at least one
\* IV, the slices it decrypted are contiguous from 0 and cover the whole
\* blob; for an empty manifest it returns an empty result without looking
\* at the blob, whatever the blob holds.
C25_AllConsumed ==
    dl.returned =>
        IF dl.totalChunks = 0
        THEN dl.decrypts = <<>> /\ dl.result = <<>>
        ELSE /\ Consumed = Len(dl.encryptedBlob)
             /\ \A d \in 1..Len(dl.decrypts) :
                    LET before ==
                            SumSeq([e \in 1..(d - 1) |->
                                       Len(dl.decrypts[e].data)])
                    IN  dl.decrypts[d].data =
                            Slice(dl.encryptedBlob, before,
                                  before + Len(dl.decrypts[d].data))
\* a blob of three ciphertexts was decrypted to its last octet and returned
C25_Witness ==
    /\ dl.returned
    /\ dl.totalChunks >= 3
    /\ Len(dl.decrypts) = 3
    /\ Consumed = Len(dl.encryptedBlob)
    /\ Consumed > 2 * (ChunkSize + TAG_LEN)

\* a stored session that restores: a token and a user record that parses
ValidSession(storage) ==
    /\ storage.authToken # NoToken
    /\ JsonParse(storage.user).ok
    /\ ~JsonParse(storage.user).value.isNull

\* C26: once AuthProvider is mounted, and after any login and logout, user and
\* token are both null or both non-null, and a non-null token in memory is the
\* token stored under authToken; a stored user that fails to parse included.
C26_UserTokenPaired ==
    auth.phase = "mounted" =>
        /\ auth.user.isNull <=> token = NoToken
        /\ token # NoToken => auth.storage.authToken = token

\* C27: an admin route renders its children only for an authenticated admin;
\* an unauthenticated visitor gets <Navigate to="/login">, an authenticated
\* non-admin <Navigate to="/dashboard">, for each of the four admin routes;
\* so the router never rests on an admin route for anyone else: the first
\* render of a page load, which has no session yet, goes to /login, and a
\* logged-in non-admin who navigates to an admin route lands on /dashboard.
C27_AdminOnly ==
    /\ \A r \in AdminRoutes :
           LET e == RouteElement(r, auth.user, token)
               authed == IsAuthenticated(auth.user, token)
           IN  /\ ~e.navigate <=> (authed /\ auth.user.role = "admin")
               /\ ~authed => e = NavigateTo("/login")
               /\ (authed /\ auth.user.role # "admin") =>
                      e = NavigateTo("/dashboard")
    /\ (auth.phase = "mounted" /\ auth.location \in AdminRoutes) =>
           /\ IsAuthenticated(auth.user, token)
           /\ auth.user.role = "admin"
    /\ (auth.phase = "rendered" /\ auth.requested \in AdminRoutes) =>
           auth.element = NavigateTo("/login")
    /\ (auth.phase = "mounted" /\ ~auth.direct
            /\ auth.requested \in AdminRoutes
            /\ IsAuthenticated(auth.user, token)
            /\ auth.user.role # "admin") =>
           auth.location = "/dashboard"

\* C27 witness: a logged-in non-admin asked for an admin route and was sent to
\* /dashboard.
C27_Witness ==
    /\ auth.phase = "mounted"
    /\ ~auth.direct
    /\ auth.requested \in AdminRoutes
    /\ IsAuthenticated(auth.user, token)
    /\ auth.user.role = "user"
    /\ auth.location = "/dashboard"

\* C28: a visitor with a valid stored session who loads a protected route
\* directly is never rendered <Navigate to="/login">, and once the effects
\* have run is on the route that was asked for (when the role may see it).
C28_RestoredBeforeRoute ==
    (/\ auth.phase # "unloaded"
     /\ auth.direct
     /\ auth.requested \in ProtectedRoutes
     /\ ValidSession(auth.storage)) =>
        /\ auth.element # NavigateTo("/login")
        /\ (/\ auth.phase = "mounted"
            /\ Settle(auth.requested, auth.user, token) = auth.requested) =>
               auth.location = auth.requested

\* C29: when no freeze/unfreeze request is in flight the local list shows the
\* status the server holds for every user (no successful toggle is lost), and
\* a local status only ever changes to the status the server holds.
C29_NoLostToggle ==
    /\ []((admin.loaded /\ \A id \in UserIds : admin.calls[id].pc = "idle")
              => admin.users = admin.server)
    /\ [][\A id \in UserIds :
              admin.users'[id] # admin.users[id] =>
                  admin.users'[id] = admin.server'[id]]_vars

\* C30: during one upload the progress shown never decreases; progress 100
\* and step 3 are reached only by the upload whose registration the backend
\* accepted; after a failed upload the wizard is on step 2 with isUploading
\* reset.
C30_UploadProgress ==
    /\ [][(isUploading /\ isUploading') => LeqQ(progress, progress')]_vars
    /\ []((isUploading /\ up.pc \in UpRunning) =>
             /\ ~EqQ(progress, Whole(100))
             /\ step # 3)
    /\ [](step = 3 => up.pc = "done")
    /\ [](up.pc \in {"failed", "rejected"} => step = 2 /\ ~isUploading)

====
